---- MODULE Spec2Model ----
(***************************************************************************)
(* Model of lib/eventlog.py (class EventLogAPI): the log retrieval state  *)
(* machine of cli-eaa.  get_logs is modelled as the operator GetLogs over  *)
(* a bounded domain of backend responses; fetch_logs is modelled as a     *)
(* state machine with one action per step of its code.                     *)
(***************************************************************************)
EXTENDS Integers, Sequences, FiniteSets, TLC

(***************************************************************************)
(* Bounds of the model.                                                    *)
(***************************************************************************)
\* records per page
MaxRecords == 2
\* requests issued by one run of fetch_logs
MaxRequests == 3
\* seconds the clock may advance during one run
MaxClock == 1

(***************************************************************************)
(* Program constants.                                                      *)
(***************************************************************************)
PULL_INTERVAL_SEC == 15
COLLECTION_DELAY_MINUTES == 1

\* EventType values
USER_ACCESS == "access"
ADMIN == "admin"
EventType == {USER_ACCESS, ADMIN}

\* Python's None (absent cursor, JSON null)
None == "None"
\* the cursors a backend may hand out
Cursors == {"c1", "c2"}
\* config.start / config.end not given on the command line
NoOverride == -1

(***************************************************************************)
(* The domain of backend responses.                                        *)
(*                                                                         *)
(* A user-access message is a mapping from keys to values.  A key is a    *)
(* string: "name" is a string that is not all digits (metadata), "epoch"  *)
(* is a decimal epoch in milliseconds, "huge" is a decimal string beyond  *)
(* the range of calendar dates.  A value is a mapping or not; its 'flog'  *)
(* is absent, not a string, or a payload string.                           *)
(***************************************************************************)
EpochMs == {43200000, 86400000}
Payloads == {"line-A"}
Absent == "<absent>"
NotStr == "<not-a-string>"

AccessKeys ==
    {[kind |-> "name", ms |-> 0], [kind |-> "huge", ms |-> 0]}
        \cup {[kind |-> "epoch", ms |-> t] : t \in EpochMs}

AccessValues ==
    {[mapping |-> FALSE, flog |-> Absent]}
        \cup {[mapping |-> TRUE, flog |-> f] : f \in {Absent, NotStr} \cup Payloads}

AccessRecords == [key : AccessKeys, value : AccessValues]

(***************************************************************************)
(* An admin item is a mapping or not; its 'ts' is absent, a string, a     *)
(* number of milliseconds, or a number beyond the range of calendar       *)
(* dates; its 'splunk_line' is absent or a payload string.                *)
(***************************************************************************)
AdminTs ==
    {[kind |-> k, ms |-> 0] : k \in {"absent", "string", "huge"}}
        \cup {[kind |-> "number", ms |-> t] : t \in EpochMs}

AdminRecords ==
    {[mapping |-> FALSE, ts |-> [kind |-> "absent", ms |-> 0], splunk_line |-> Absent]}
        \cup [mapping : {TRUE}, ts : AdminTs, splunk_line : {Absent} \cup Payloads]

SeqsUpTo(S, n) == UNION {[1..k -> S] : k \in 0..n}

\* a mapping holds each key once
DistinctKeys(recs) ==
    \A i, j \in 1..Len(recs) : i # j => recs[i].key # recs[j].key

NoPage(kind) ==
    [kind |-> kind, shape |-> "other", scroll_id |-> None,
     metadata |-> FALSE, data |-> FALSE, records |-> <<>>]

AccessPage(cursor, recs) ==
    [kind |-> "message", shape |-> USER_ACCESS, scroll_id |-> cursor,
     metadata |-> FALSE, data |-> FALSE, records |-> recs]

AdminPage(cursor, metadata, data, recs) ==
    [kind |-> "message", shape |-> ADMIN, scroll_id |-> cursor,
     metadata |-> metadata, data |-> data, records |-> recs]

\* post() raised, status code is not ok, json() raised, no 'message' key,
\* a 'message' of neither shape
Failures ==
    {NoPage(k) : k \in {"post_raises", "bad_status", "bad_json", "no_message", "message"}}

AccessPages ==
    {AccessPage(c, recs) : c \in Cursors \cup {None},
                           recs \in {r \in SeqsUpTo(AccessRecords, MaxRecords) : DistinctKeys(r)}}

AdminPages ==
    {AdminPage(c, TRUE, TRUE, recs) : c \in Cursors \cup {None},
                                      recs \in SeqsUpTo(AdminRecords, MaxRecords)}
        \cup {AdminPage(c, TRUE, FALSE, <<>>) : c \in Cursors \cup {None}}
        \cup {AdminPage(None, FALSE, d, <<>>) : d \in BOOLEAN}

Responses == Failures \cup AccessPages \cup AdminPages

(***************************************************************************)
(* get_logs                                                                *)
(***************************************************************************)
\* the time zone of the process (TZ), in seconds east of UTC: it is read by
\* datetime.date.fromtimestamp and does not change during a run
VARIABLE tz

\* New York, UTC, Auckland (at the epoch)
TimeZones == {-18000, 0, 43200}

\* datetime.date.fromtimestamp(seconds): the local calendar day, as a day
\* number (days after 1970-01-01)
DateFromTimestamp(seconds) == (seconds + tz) \div 86400

\* every key taken for a timestamp
IsDigitAnyKey(key) == TRUE

\* str.isdigit() of a key
IsDigit(key) == key.kind \in {"epoch", "huge"}

\* datetime.date.fromtimestamp raises beyond the range of dates
DateRaises(kind) == kind = "huge"

Line(date, sep, text) == [date |-> date, sep |-> sep, text |-> text]

\* what one call returns and does: the cursor returned, the lines written to
\* the output in order, and the increment of error_count
Result(cursor, lines, errors) ==
    [scroll_id |-> cursor, lines |-> lines, errors |-> errors]

\* one iteration of the user-access loop: the lines it writes
AccessRecord(item) ==
    IF ~IsDigit(item.key) THEN <<>>
    ELSE IF ~item.value.mapping \/ item.value.flog = Absent THEN <<>>
    ELSE IF DateRaises(item.key.kind) THEN <<>>
    ELSE IF item.value.flog = NotStr THEN <<>>
    ELSE <<Line(DateFromTimestamp(item.key.ms \div 1000), " ", item.value.flog)>>

RECURSIVE AccessLines(_)
AccessLines(items) ==
    IF items = <<>> THEN <<>>
    ELSE AccessRecord(Head(items)) \o AccessLines(Tail(items))

\* "{}".format(item.get('splunk_line'))
FormatPayload(splunk_line) == IF splunk_line = Absent THEN "None" ELSE splunk_line

\* one iteration of the admin loop, for an item that is a mapping
AdminRecord(item) ==
    IF item.ts.kind \in {"absent", "string"} THEN <<>>
    ELSE IF DateRaises(item.ts.kind) THEN <<>>
    ELSE <<Line(DateFromTimestamp(item.ts.ms \div 1000), ",", FormatPayload(item.splunk_line))>>

\* the handler of the admin loop calls item.get(...) itself
AdminHandlerRaises(item) == ~item.mapping

RECURSIVE AdminLines(_)
AdminLines(items) ==
    IF items = <<>> THEN <<>>
    ELSE IF AdminHandlerRaises(Head(items)) THEN <<>>
    ELSE AdminRecord(Head(items)) \o AdminLines(Tail(items))

\* the items of the user-access message, the 'scroll_id' entry included
AccessItems(resp) ==
    IF resp.scroll_id = None THEN resp.records
    ELSE <<[key |-> [kind |-> "name", ms |-> 0],
            value |-> [mapping |-> FALSE, flog |-> Absent]]>> \o resp.records

\* the branch without 'message', error_count left as it is
NoMessageUncounted == Result(None, <<>>, 0)

\* the branch without 'message'
NoMessage == Result(None, <<>>, 1)

\* a transport failure that hands back the cursor of the request
TransportFailureKeepsCursor(drpc_args) == Result(drpc_args.scroll_id, <<>>, 0)

\* the branch of a transport failure: scroll_id is still None
TransportFailure(drpc_args) == Result(None, <<>>, 0)

AccessMessage(resp) ==
    IF resp.shape # USER_ACCESS THEN Result(None, <<>>, 0)
    ELSE Result(resp.scroll_id, AccessLines(AccessItems(resp)), 0)

\* an admin message whose cursor is given up when the data is missing
AdminMessageDropsCursor(resp) ==
    IF resp.shape # ADMIN \/ ~resp.metadata THEN Result(None, <<>>, 0)
    ELSE IF ~resp.data THEN Result(None, <<>>, 0)
    ELSE Result(resp.scroll_id, AdminLines(resp.records), 0)

AdminMessage(resp) ==
    IF resp.shape # ADMIN \/ ~resp.metadata THEN Result(None, <<>>, 0)
    ELSE IF ~resp.data THEN Result(resp.scroll_id, <<>>, 0)
    ELSE Result(resp.scroll_id, AdminLines(resp.records), 0)

GetLogs(drpc_args, resp, logtype) ==
    IF resp.kind \in {"post_raises", "bad_status"} THEN TransportFailure(drpc_args)
    ELSE IF resp.kind = "bad_json" THEN Result(None, <<>>, 0)
    ELSE IF resp.kind = "no_message" THEN NoMessage
    ELSE IF logtype = USER_ACCESS THEN AccessMessage(resp)
    ELSE AdminMessage(resp)

(***************************************************************************)
(* State of one run of fetch_logs.                                         *)
(***************************************************************************)
VARIABLES
    config,         \* config.tail, .start, .end, .log_type, and the output target
    pc,             \* where fetch_logs (or get_logs) stands
    handlers,       \* the signal handlers are installed
    stop,           \* stop_event is set
    now,            \* the clock, in seconds
    out,            \* the output: its state, the lines written, how many are flushed,
                    \* the calls of flush() and close(), the bytes it held before
                    \* the run, whether its descriptor is in append mode
    start_position, \* out.tell() before the loop
    ets, sts,       \* the window
    scroll_id,      \* the cursor
    windows,        \* how many windows were computed
    reqs,           \* the requests issued, each with what get_logs returned for it
    resp,           \* the response get_logs handled last
    pre,            \* the counters when get_logs was called last, and what became
                    \* of each write of that call
    line_count,
    error_count,
    fault,          \* an exception reached the handler of fetch_logs
    summary         \* the summary printed at the end of a bounded run

vars == <<config, pc, handlers, stop, now, out, start_position, ets, sts, scroll_id,
          windows, reqs, resp, pre, line_count, error_count, fault, summary, tz>>

\* config.start and config.end: not given, zero, or seconds
Overrides == {NoOverride, 0, 30, 70}

\* the output target: a path (usable: open() succeeds), sys.stdout or another
\* stream (usable: tell() succeeds)
Outputs == [kind : {"path", "stdout", "stream"}, usable : BOOLEAN]

Configs ==
    [tail : BOOLEAN, batch : BOOLEAN, start : Overrides, end : Overrides,
     log_type : EventType \cup {"bogus"}, output : Outputs]

\* the configurations of a run: no override, or a start and an end; the
\* summary is not suppressed
LoopConfigs ==
    {c \in Configs : /\ ~c.batch
                     /\ \/ c.start = NoOverride /\ c.end = NoOverride
                        \/ c.start = 30 /\ c.end = 70}

\* str() of a number
Str(n) == [decimal |-> n]

\* the bytes of one line: the ISO date, the separator, the payload, the newline
ByteLen(line) == 10 + 1 + Len(line.text) + 1

RECURSIVE Bytes(_)
Bytes(lines) == IF lines = <<>> THEN 0 ELSE ByteLen(Head(lines)) + Bytes(Tail(lines))

\* out.tell(): the position of the descriptor.  A descriptor in append mode
\* (a standard output redirected with >>) starts at 0 and moves to the end of
\* the file with the first write
Position(o) ==
    IF o.append /\ o.written = <<>> THEN 0 ELSE o.held + Bytes(o.written)

NoResp == NoPage("none")
NoPre == [line_count |-> 0, error_count |-> 0, written |-> 0, writes |-> <<>>]
NoSummary == [printed |-> FALSE, lines |-> 0, errors |-> 0, bytes |-> 0]

\* the output before fetch_logs opens it, holding `held` bytes
Unopened(held, append) ==
    [state |-> "none", written |-> <<>>, flushed |-> 0, flushes |-> 0,
     closes |-> 0, held |-> held, append |-> append]

\* the runs explored: a tail run takes its window from the clock alone
\* (DateStart, DateEnd), so it is run without overrides, on the access
\* category; a bounded run is of any category, with or without overrides
RunConfigs ==
    {c \in LoopConfigs :
        c.tail => (c.start = NoOverride /\ c.log_type # ADMIN)}

Init ==
    /\ config \in RunConfigs
    /\ pc = "start"
    /\ handlers = FALSE
    /\ stop = FALSE
    /\ now = 100
    /\ out = Unopened(0, FALSE)
    /\ tz = 0
    /\ start_position = 0
    /\ ets = 0
    /\ sts = 0
    /\ scroll_id = None
    /\ windows = 0
    /\ reqs = <<>>
    /\ resp = NoResp
    /\ pre = NoPre
    /\ line_count = 0
    /\ error_count = 0
    /\ fault = FALSE
    /\ summary = NoSummary

(***************************************************************************)
(* date_boundaries                                                         *)
(***************************************************************************)
\* truth value of config.start / config.end
Truthy(x) == x # NoOverride /\ x # 0

\* the end of the window without the collection delay
DateEndNoDelay(clock, cfg) ==
    IF ~cfg.tail /\ Truthy(cfg.end) THEN cfg.end * 1000
    ELSE clock * 1000

DateEnd(clock, cfg) ==
    IF ~cfg.tail /\ Truthy(cfg.end) THEN cfg.end * 1000
    ELSE clock * 1000 - COLLECTION_DELAY_MINUTES * 60 * 1000

\* the start override honoured in tail mode too
DateStartAnyMode(end_ms, cfg) ==
    IF Truthy(cfg.start) THEN cfg.start * 1000
    ELSE end_ms - PULL_INTERVAL_SEC * 1000

DateStart(end_ms, cfg) ==
    IF ~cfg.tail /\ Truthy(cfg.start) THEN cfg.start * 1000
    ELSE end_ms - PULL_INTERVAL_SEC * 1000

\* (ets, sts)
DateBoundaries(clock, cfg) ==
    <<DateEnd(clock, cfg), DateStart(DateEnd(clock, cfg), cfg)>>

(***************************************************************************)
(* fetch_logs                                                              *)
(***************************************************************************)
\* the responses the backend gives in a run: failures, and pages of the
\* endpoint's shape: a last page with no record or one, a page with a cursor
\* and one record
GoodAccess ==
    [key |-> [kind |-> "epoch", ms |-> 86400000],
     value |-> [mapping |-> TRUE, flog |-> "line-A"]]
GoodAdmin ==
    [mapping |-> TRUE, ts |-> [kind |-> "number", ms |-> 86400000],
     splunk_line |-> "line-A"]

LoopResponses(logtype) ==
    {NoPage(k) : k \in {"post_raises", "bad_status", "no_message"}}
        \cup IF logtype = USER_ACCESS
             THEN {AccessPage(c, <<GoodAccess>>) : c \in Cursors \cup {None}}
                      \cup {AccessPage(None, <<>>)}
             ELSE {AdminPage(c, TRUE, TRUE, <<GoodAdmin>>) : c \in Cursors \cup {None}}
                      \cup {AdminPage(None, TRUE, TRUE, <<>>)}
                      \cup {AdminPage("c1", TRUE, FALSE, <<>>)}

\* drpc_args without the cursor
DrpcArgsNoCursor ==
    [window |-> windows, sts |-> Str(sts), ets |-> Str(ets),
     scroll_id |-> None, stopped |-> stop,
     returned |-> "pending", outcome |-> "pending"]

\* drpc_args of the next request: 'sts', 'ets' and, unless it is None,
\* 'scroll_id'.  For the record: the window it belongs to, whether the stop
\* flag was set when it was issued, and what get_logs made of its response
DrpcArgs ==
    [window |-> windows, sts |-> Str(sts), ets |-> Str(ets),
     scroll_id |-> scroll_id, stopped |-> stop,
     returned |-> "pending", outcome |-> "pending"]

\* what output.write(line) does (lines 115, 126): it returns; or it raises
\* with the text kept in the buffer of the stream, which a later flush
\* writes; or it raises with the text dropped (a payload that cannot be
\* encoded, a stream without buffer on a failing device)
WriteOutcomes == {"written", "buffered", "dropped"}

\* the lines the output takes, in order
RECURSIVE Taken(_, _)
Taken(lines, outcomes) ==
    IF lines = <<>> THEN <<>>
    ELSE (IF Head(outcomes) # "dropped" THEN <<Head(lines)>> ELSE <<>>)
             \o Taken(Tail(lines), Tail(outcomes))

\* self.line_count += 1 follows a write that returned; a write that raised
\* goes to the handler of the record (lines 119, 129)
Counted(outcomes) ==
    Cardinality({i \in 1..Len(outcomes) : outcomes[i] = "written"})

\* the call of get_logs on response r to request drpc_args; each write of a
\* line has one of the outcomes
GetLogsCall(drpc_args, r) ==
    LET res == GetLogs(drpc_args, r, config.log_type) IN
    \E outcomes \in [1..Len(res.lines) -> WriteOutcomes] :
        /\ resp' = r
        /\ pre' = [line_count |-> line_count, error_count |-> error_count,
                   written |-> Len(out.written), writes |-> outcomes]
        /\ scroll_id' = res.scroll_id
        /\ line_count' = line_count + Counted(outcomes)
        /\ error_count' = error_count + res.errors
        /\ out' = [out EXCEPT !.written = @ \o Taken(res.lines, outcomes)]

\* every category passes
AnyLogType(logtype) == TRUE

\* self.EventType(config.log_type) succeeds; isinstance(logtype, self.EventType)
SupportedLogType(logtype) == logtype \in EventType

\* log_type = self.EventType(config.log_type), signal.signal(...)
Start ==
    /\ pc = "start"
    /\ IF SupportedLogType(config.log_type)
       THEN handlers' = TRUE /\ pc' = "open"
       ELSE handlers' = handlers /\ pc' = "raised"
    /\ UNCHANGED <<tz, summary, config, stop, now, out, start_position, ets, sts, scroll_id,
                   windows, reqs, resp, pre, line_count, error_count, fault>>

\* open(path, 'w+') empties the file; a stream is taken as it is
Opened(o, kind) ==
    [o EXCEPT !.state = "open", !.held = IF kind = "path" THEN 0 ELSE @]

\* out = open(...) or out = self._output
OpenOutput ==
    /\ pc = "open"
    /\ IF config.output.kind = "path" /\ ~config.output.usable
       THEN out' = out /\ fault' = TRUE /\ pc' = "finally"
       ELSE out' = Opened(out, config.output.kind) /\ fault' = fault /\ pc' = "tell"
    /\ UNCHANGED <<tz, summary, config, handlers, stop, now, start_position, ets, sts, scroll_id,
                   windows, reqs, resp, pre, line_count, error_count>>

\* start_position = out.tell()
Tell ==
    /\ pc = "tell"
    /\ IF config.output.usable
       THEN start_position' = Position(out) /\ fault' = fault /\ pc' = "window"
       ELSE start_position' = start_position /\ fault' = TRUE /\ pc' = "finally"
    /\ UNCHANGED <<tz, summary, config, handlers, stop, now, out, ets, sts, scroll_id,
                   windows, reqs, resp, pre, line_count, error_count>>

\* scroll_id = None, at the start of a window
WindowCursor == None

\* ets, sts = EventLogAPI.date_boundaries(); scroll_id = None
ComputeWindow ==
    /\ pc = "window"
    /\ ets' = DateBoundaries(now, config)[1]
    /\ sts' = DateBoundaries(now, config)[2]
    /\ scroll_id' = WindowCursor
    /\ windows' = windows + 1
    /\ pc' = "request"
    /\ UNCHANGED <<tz, summary, config, handlers, stop, now, out, start_position,
                   reqs, resp, pre, line_count, error_count, fault>>

\* drpc_args = {...}; self.post(...)
Request ==
    /\ pc = "request"
    /\ Len(reqs) < MaxRequests
    /\ reqs' = Append(reqs, DrpcArgs)
    /\ pc' = "get_logs"
    /\ UNCHANGED <<tz, summary, config, handlers, stop, now, out, start_position, ets, sts, scroll_id,
                   windows, resp, pre, line_count, error_count, fault>>

\* scroll_id = self.get_logs(drpc_args, log_type, out), the response being
\* one of R
RespondFrom(R) ==
    /\ pc = "get_logs"
    /\ SupportedLogType(config.log_type)
    /\ \E r \in R :
          /\ GetLogsCall(reqs[Len(reqs)], r)
          /\ reqs' = [reqs EXCEPT ![Len(reqs)].returned = scroll_id',
                                  ![Len(reqs)].outcome = r.kind]
    /\ pc' = "flush"
    /\ UNCHANGED <<tz, summary, config, handlers, stop, now, start_position, ets, sts,
                   windows, fault>>

Respond == RespondFrom(LoopResponses(config.log_type))

\* a break after the first page
PageBreakFirstPage == TRUE

\* a break as soon as the stop flag is set
PageBreakOnStop == scroll_id = None \/ stop

\* if scroll_id is None: break
PageBreak == scroll_id = None

\* a flush only when the page wrote a line
FlushedIfWritten(o) ==
    IF Len(o.written) > o.flushed
    THEN [o EXCEPT !.flushed = Len(o.written), !.flushes = @ + 1]
    ELSE o

\* out.flush()
Flushed(o) == [o EXCEPT !.flushed = Len(o.written), !.flushes = @ + 1]

\* out.flush(), then the test of the cursor
Flush ==
    /\ pc = "flush"
    /\ out' = Flushed(out)
    /\ pc' = IF PageBreak THEN "window_end" ELSE "request"
    /\ UNCHANGED <<tz, summary, config, handlers, stop, now, start_position, ets, sts, scroll_id,
                   windows, reqs, resp, pre, line_count, error_count, fault>>

\* out.flush() raises
FlushRaises ==
    /\ pc = "flush"
    /\ out' = [out EXCEPT !.flushes = @ + 1]
    /\ fault' = TRUE
    /\ pc' = "finally"
    /\ UNCHANGED <<tz, summary, config, handlers, stop, now, start_position, ets, sts, scroll_id,
                   windows, reqs, resp, pre, line_count, error_count>>

\* a bounded run without its break
AfterWindowNoBreak(tail) == IF ~tail THEN "window" ELSE "wait"

\* tail mode without the wait and the test of the flag
AfterWindowNoWait(tail) == IF ~tail THEN "finally" ELSE "window"

\* if not config.tail: ... break; else: ... stop_event.wait(...)
AfterWindow(tail) == IF ~tail THEN "finally" ELSE "wait"

\* total_bytes = out.tell() - start_position
TotalBytes == Position(out) - start_position

\* cli.print(...) of the lines, the errors and the bytes
Summary ==
    [printed |-> TRUE, lines |-> line_count, errors |-> error_count,
     bytes |-> TotalBytes]

WindowEnd ==
    /\ pc = "window_end"
    /\ pc' = AfterWindow(config.tail)
    /\ summary' = IF ~config.tail /\ ~config.batch THEN Summary ELSE summary
    /\ UNCHANGED <<tz, config, handlers, stop, now, out, start_position, ets, sts, scroll_id,
                   windows, reqs, resp, pre, line_count, error_count, fault>>

\* stop_event.wait(...) returns: the flag is set or the time is over
Wait ==
    /\ pc = "wait"
    /\ pc' = "is_set"
    /\ UNCHANGED <<tz, summary, config, handlers, stop, now, out, start_position, ets, sts, scroll_id,
                   windows, reqs, resp, pre, line_count, error_count, fault>>

\* the test of the flag inverted
StopInverted == ~stop

\* if stop_event.is_set(): break
StopObserved == stop

IsSet ==
    /\ pc = "is_set"
    /\ pc' = IF StopObserved THEN "finally" ELSE "window"
    /\ UNCHANGED <<tz, summary, config, handlers, stop, now, out, start_position, ets, sts, scroll_id,
                   windows, reqs, resp, pre, line_count, error_count, fault>>

\* the close left to the path without a fault
ClosesUnlessFault == out.state = "open" /\ config.output.kind # "stdout" /\ ~fault

\* if out and self._output != sys.stdout: out.close()
Closes == out.state = "open" /\ config.output.kind # "stdout"

\* out.close() on output o, `flushed` lines being on the device after it.
\* With nothing pending that is every line; lines that a failed flush left
\* pending are written by close(), or are lost (a stream without buffer
\* drops them with the failed flush)
Closed(o, flushed) ==
    [o EXCEPT !.state = "closed", !.closes = @ + 1, !.flushed = flushed]

Finally ==
    /\ pc = "finally"
    /\ IF Closes
       THEN \E flushed \in {out.flushed, Len(out.written)} : out' = Closed(out, flushed)
       ELSE out' = out
    /\ pc' = "done"
    /\ UNCHANGED <<tz, summary, config, handlers, stop, now, start_position, ets, sts,
                   scroll_id, windows, reqs, resp, pre, line_count, error_count, fault>>

\* out.close() raises (a flush inside it fails, the descriptor is dead).
\* The file is closed all the same and the exception leaves fetch_logs from
\* its finally block; pending lines are written by a later flush inside
\* close() or stay unwritten
CloseRaises ==
    /\ pc = "finally"
    /\ Closes
    /\ \E flushed \in {out.flushed, Len(out.written)} : out' = Closed(out, flushed)
    /\ pc' = "raised"
    /\ UNCHANGED <<tz, summary, config, handlers, stop, now, start_position, ets, sts,
                   scroll_id, windows, reqs, resp, pre, line_count, error_count, fault>>

\* exit_fn on SIGTERM or SIGINT: sets the stop flag
Signal ==
    /\ handlers
    /\ pc \notin {"done", "raised"}
    /\ ~stop
    /\ stop' = TRUE
    /\ UNCHANGED <<tz, summary, config, pc, handlers, now, out, start_position, ets, sts, scroll_id,
                   windows, reqs, resp, pre, line_count, error_count, fault>>

\* time passes while the request is in flight or the loop waits
Tick ==
    /\ pc \in {"get_logs", "wait"}
    /\ now < 100 + MaxClock
    /\ now' = now + 1
    /\ UNCHANGED <<tz, summary, config, pc, handlers, stop, out, start_position, ets, sts, scroll_id,
                   windows, reqs, resp, pre, line_count, error_count, fault>>

Next ==
    \/ Start
    \/ OpenOutput
    \/ Tell
    \/ ComputeWindow
    \/ Request
    \/ Respond
    \/ Flush
    \/ FlushRaises
    \/ WindowEnd
    \/ Wait
    \/ IsSet
    \/ Finally
    \/ CloseRaises
    \/ Signal
    \/ Tick

Spec == Init /\ [][Next]_vars

(***************************************************************************)
(* get_logs on its own: one call, on any response of the domain, for any  *)
(* request, with counters and output as earlier pages may have left them.  *)
(***************************************************************************)
\* lines and errors counted before the call
MaxPrior == 1

PriorLine == Line(0, " ", "line-A")

InitPage ==
    /\ config \in {c \in LoopConfigs : /\ c.tail
                                        /\ c.start = NoOverride
                                        /\ c.output = [kind |-> "path", usable |-> TRUE]}
    /\ pc = "get_logs"
    /\ handlers = FALSE
    /\ stop = FALSE
    /\ now = 100
    /\ tz \in TimeZones
    /\ \E n \in 0..MaxPrior :
          /\ line_count = n
          /\ out = [Unopened(0, FALSE) EXCEPT !.state = "open",
                                              !.written = [i \in 1..n |-> PriorLine],
                                              !.flushed = n]
    /\ error_count \in 0..MaxPrior
    /\ start_position = 0
    /\ ets = DateBoundaries(100, config)[1]
    /\ sts = DateBoundaries(100, config)[2]
    /\ scroll_id \in {None, "c1"}
    /\ windows = 1
    /\ reqs = <<[window |-> 1, sts |-> Str(sts), ets |-> Str(ets),
                 scroll_id |-> scroll_id, stopped |-> FALSE,
                 returned |-> "pending", outcome |-> "pending"]>>
    /\ resp = NoResp
    /\ pre = NoPre
    /\ fault = FALSE
    /\ summary = NoSummary

GetLogsPage == RespondFrom(Responses)

\* if not isinstance(logtype, self.EventType): raise ValueError
GetLogsRaises ==
    /\ pc = "get_logs"
    /\ ~SupportedLogType(config.log_type)
    /\ pc' = "raised"
    /\ UNCHANGED <<tz, summary, config, handlers, stop, now, out, start_position, ets, sts,
                   scroll_id, windows, reqs, resp, pre, line_count, error_count, fault>>

NextPage == GetLogsPage \/ GetLogsRaises

SpecPage == InitPage /\ [][NextPage]_vars

(***************************************************************************)
(* Properties of fetch_logs.                                               *)
(***************************************************************************)
Last == reqs[Len(reqs)]

\* the window's pagination has ended and no exception reached fetch_logs
WindowEnded ==
    \/ pc \in {"window_end", "wait", "is_set"}
    \/ pc \in {"finally", "done"} /\ ~fault

\* request i is the first of its window
FirstOfWindow(i) == i = 1 \/ reqs[i - 1].window # reqs[i].window

PageFailure(kind) == kind = "no_message"
TransportFailed(kind) == kind \in {"post_raises", "bad_status"}

\* C1: within one window a further request is issued if and only if the
\* previous call of get_logs returned a cursor: the request after one that
\* returned a cursor is in the same window, the request after one that
\* returned none is in another window, a page failure and a transport
\* failure return none, and a window ends only at a response with no cursor.
\* So a window whose responses carry c1, c2, none has exactly three requests.
C1_PaginationIffCursor ==
    /\ \A i \in 1..(Len(reqs) - 1) :
          (reqs[i + 1].window = reqs[i].window) <=> (reqs[i].returned # None)
    /\ \A i \in 1..Len(reqs) :
          (PageFailure(reqs[i].outcome) \/ TransportFailed(reqs[i].outcome))
              => reqs[i].returned = None
    /\ WindowEnded => (Len(reqs) > 0 /\ Last.returned = None)
    /\ (pc = "request" /\ Len(reqs) > 0 /\ Last.window = windows)
          => Last.returned # None

\* a window answered with c1, c2, none has ended after three requests
C1_Witness ==
    /\ pc = "window_end"
    /\ Len(reqs) = 3
    /\ \A i \in 1..3 : reqs[i].window = 1
    /\ <<reqs[1].returned, reqs[2].returned, reqs[3].returned>> = <<"c1", "c2", None>>

\* C2: the first request of a window carries no scroll_id; every later
\* request of the window carries the cursor the preceding response of the
\* same window returned, and the sts and ets of the request before it; so no
\* cursor of one window is sent in another.
C2_CursorChain ==
    \A i \in 1..Len(reqs) :
        IF FirstOfWindow(i)
        THEN reqs[i].scroll_id = None
        ELSE /\ reqs[i].scroll_id = reqs[i - 1].returned
             /\ reqs[i].scroll_id # None
             /\ reqs[i].sts = reqs[i - 1].sts
             /\ reqs[i].ets = reqs[i - 1].ets

\* a window of two requests, the clock moving meanwhile, then another window
C2_Witness ==
    /\ Len(reqs) = 3
    /\ reqs[1].returned = "c1"
    /\ reqs[2].window = reqs[1].window
    /\ reqs[2].scroll_id = "c1"
    /\ reqs[3].window # reqs[2].window
    /\ reqs[3].ets # reqs[2].ets

\* C3: a stop flag set while a window is paginated does not cut the window
\* short: with the flag set, a page that returned a cursor is followed by the
\* next request, a window ends only at a response with no cursor and with
\* every line written flushed, and the loop is left because of the flag only
\* from the test after the wait.
C3_SignalNeverCutsWindow ==
    /\ [](stop /\ WindowEnded =>
            /\ Last.returned = None
            /\ out.flushed = Len(out.written))
    /\ [][(stop /\ pc = "flush" /\ scroll_id # None)
             => (pc' = "request" \/ (pc' = "finally" /\ fault') \/ pc' = pc)]_vars
    /\ [][(config.tail /\ pc # "finally" /\ pc' = "finally" /\ ~fault')
             => pc = "is_set"]_vars

\* a window in which the second and third request were issued with the flag
\* set has ended, its lines flushed
C3_Witness ==
    /\ pc = "window_end"
    /\ Len(reqs) = 3
    /\ \A i \in 1..3 : reqs[i].window = 1
    /\ ~reqs[1].stopped /\ reqs[2].stopped /\ reqs[3].stopped
    /\ Len(out.written) = 3
    /\ out.flushed = 3

\* C4: in tail mode, once the stop flag is set at the wait (before or during
\* it), the loop leaves without computing a window and without a request.
C4_StopAtWaitExits ==
    [][(stop /\ pc \in {"wait", "is_set", "finally", "done", "raised"})
          => /\ pc' \in {"wait", "is_set", "finally", "done", "raised"}
             /\ reqs' = reqs
             /\ windows' = windows]_vars

\* the loop has left from the test after the wait, the flag set
C4_Witness ==
    /\ config.tail
    /\ stop
    /\ ~fault
    /\ pc = "finally"
    /\ windows = 2
    /\ ~Last.stopped

\* C5: a bounded run computes one window, drains it and leaves the loop: it
\* never waits, never computes a second window, and has, once out of the
\* loop, one window whose last response carries no cursor.
C5_BoundedOneWindow ==
    ~config.tail =>
        /\ pc \notin {"wait", "is_set"}
        /\ windows <= 1
        /\ \A i \in 1..Len(reqs) : reqs[i].window = 1
        /\ (pc \in {"finally", "done"} /\ ~fault)
              => (windows = 1 /\ Len(reqs) > 0 /\ Last.returned = None)

\* a bounded run is over after a window of two pages, the flag set meanwhile
C5_Witness ==
    /\ ~config.tail
    /\ pc = "done"
    /\ ~fault
    /\ stop
    /\ Len(reqs) = 2
    /\ reqs[1].stopped

\* C6: a transport failure returns no cursor, so the window ends there and the
\* failed page is not requested again: the request after it, if any, is in
\* tail mode, belongs to a later window and carries no cursor; a bounded run
\* issues no request after it.
C6_TransportFailureNoRetry ==
    \A i \in 1..Len(reqs) :
        TransportFailed(reqs[i].outcome) =>
            /\ reqs[i].returned = None
            /\ i < Len(reqs) =>
                  /\ config.tail
                  /\ reqs[i + 1].window > reqs[i].window
                  /\ reqs[i + 1].scroll_id = None
            /\ (i = Len(reqs) /\ ~config.tail)
                  => pc \in {"flush", "window_end", "finally", "done", "raised"}
            /\ (i = Len(reqs) /\ pc = "request")
                  => (windows > reqs[i].window /\ scroll_id = None)

\* in tail mode the request that carried c1 failed and a new window started
C6_Witness ==
    /\ config.tail
    /\ Len(reqs) = 3
    /\ reqs[2].scroll_id = "c1"
    /\ TransportFailed(reqs[2].outcome)
    /\ reqs[3].window = 2
    /\ reqs[3].scroll_id = None

\* C7: for a response with a successful status and no 'message', get_logs
\* adds one to error_count, writes no line, leaves line_count as it was and
\* returns no cursor, and the window's pagination ends with that request.
C7_NoMessage ==
    /\ (pc = "flush" /\ resp.kind = "no_message") =>
          /\ error_count = pre.error_count + 1
          /\ line_count = pre.line_count
          /\ Len(out.written) = pre.written
          /\ scroll_id = None
    /\ \A i \in 1..(Len(reqs) - 1) :
          reqs[i].outcome = "no_message" => reqs[i + 1].window > reqs[i].window

\* a response without 'message' to a request that carried a cursor, errors
\* and lines counted before
C7_Witness ==
    /\ pc = "flush"
    /\ resp.kind = "no_message"
    /\ Last.scroll_id = "c1"
    /\ pre.error_count = 1
    /\ pre.line_count = 1
    /\ error_count = 2

(***************************************************************************)
(* Properties of get_logs on one page.                                     *)
(***************************************************************************)
\* get_logs has returned
Returned == pc = "flush"

\* the lines the call wrote
NewLines == SubSeq(out.written, pre.written + 1, Len(out.written))

\* the response is a page of the shape of the endpoint called
ProperPage ==
    /\ resp.kind = "message"
    /\ resp.shape = config.log_type
    /\ resp.shape = ADMIN => (resp.metadata /\ resp.data)

\* a record with a missing or invalid timestamp or a missing payload
Malformed(rec) ==
    IF resp.shape = USER_ACCESS
    THEN /\ rec.key.kind # "name"
         /\ (rec.key.kind = "huge" \/ ~rec.value.mapping \/ rec.value.flog = Absent)
    ELSE \/ ~rec.mapping
         \/ rec.ts.kind # "number"
         \/ rec.splunk_line = Absent

\* a record with a timestamp that is a date and a payload string
WellFormed(rec) ==
    IF resp.shape = USER_ACCESS
    THEN rec.key.kind = "epoch" /\ rec.value.mapping /\ rec.value.flog \in Payloads
    ELSE rec.mapping /\ rec.ts.kind = "number" /\ rec.splunk_line \in Payloads

\* the calendar day, in the time zone of the process, of an epoch in
\* milliseconds
LocalDay(ms) ==
    LET local == (ms \div 1000) + tz IN
    CHOOSE d \in -1..2 : d * 86400 <= local /\ local < (d + 1) * 86400

\* the line of a well formed record
LineOf(rec) ==
    IF resp.shape = USER_ACCESS
    THEN [date |-> LocalDay(rec.key.ms), sep |-> " ", text |-> rec.value.flog]
    ELSE [date |-> LocalDay(rec.ts.ms), sep |-> ",", text |-> rec.splunk_line]

Count(recs, P(_)) == Cardinality({i \in 1..Len(recs) : P(recs[i])})

\* C8: every malformed record of a page adds exactly one to error_count and
\* gets no line.
C8_MalformedCounted ==
    (Returned /\ ProperPage) =>
        /\ error_count = pre.error_count + Count(resp.records, Malformed)
        /\ Len(NewLines) <= Len(resp.records) - Count(resp.records, Malformed)

\* every output.write of the call returned
AllWritten == \A i \in 1..Len(pre.writes) : pre.writes[i] = "written"

\* C9: a malformed record does not end the page: every well formed record of
\* the page is written (where output.write does not raise) and the cursor of
\* the page is returned.
C9_MalformedNeverAborts ==
    (Returned /\ ProperPage /\ AllWritten) =>
        /\ \A i \in 1..Len(resp.records) :
              WellFormed(resp.records[i])
                  => \E j \in 1..Len(NewLines) : NewLines[j] = LineOf(resp.records[i])
        /\ scroll_id = resp.scroll_id

\* a user-access entry with a purely numeric key and a mapping with a payload
NumericWithPayload(rec) ==
    rec.key.kind \in {"epoch", "huge"} /\ rec.value.mapping /\ rec.value.flog # Absent

\* C10 as stated, where every output.write returns: a user-access page gets
\* one line for each purely numeric key whose record is a mapping with a
\* payload, none for another entry, and no error is counted.
C10_OneLinePerNumericKey ==
    (Returned /\ ProperPage /\ resp.shape = USER_ACCESS /\ AllWritten) =>
        /\ Len(NewLines) = Count(resp.records, NumericWithPayload)
        /\ line_count = pre.line_count + Len(NewLines)
        /\ error_count = pre.error_count

RECURSIVE WellFormedLines(_)
WellFormedLines(recs) ==
    IF recs = <<>> THEN <<>>
    ELSE (IF WellFormed(Head(recs)) THEN <<LineOf(Head(recs))>> ELSE <<>>)
             \o WellFormedLines(Tail(recs))

\* C10, amended: on a user-access page output.write is called, in the order
\* of the entries, once for each purely numeric key that is a calendar date
\* and whose record is a mapping with a payload string, and for no other
\* entry (a key that is not purely numeric, a numeric key beyond the range of
\* dates, a payload that is not a string).  The lines the output takes are
\* those of the writes that did not lose their text; when every write
\* returns they are exactly the lines of the dated keys and line_count grows
\* by their number.  line_count never grows by more than the number of dated
\* keys, and a page whose entries are metadata keys and well formed records
\* leaves error_count as it was.
C10_OneLinePerDatedKey ==
    (Returned /\ ProperPage /\ resp.shape = USER_ACCESS) =>
        LET dated == WellFormedLines(resp.records) IN
        /\ Len(pre.writes) = Len(dated)
        /\ NewLines = Taken(dated, pre.writes)
        /\ AllWritten => /\ NewLines = dated
                         /\ line_count = pre.line_count + Len(dated)
        /\ line_count \in pre.line_count..(pre.line_count + Len(dated))
        /\ Count(resp.records, Malformed) = 0 => error_count = pre.error_count

\* a message with a metadata key and a numeric key with a payload, the write
\* of which returned, has given one line, dated from the key in the time
\* zone of the process (in New York the epoch 86400 s is still on
\* 1970-01-01), and no error
C10_Witness ==
    /\ Returned
    /\ tz = -18000
    /\ config.log_type = USER_ACCESS
    /\ ProperPage
    /\ resp.records = <<[key |-> [kind |-> "name", ms |-> 0],
                         value |-> [mapping |-> TRUE, flog |-> Absent]],
                        [key |-> [kind |-> "epoch", ms |-> 86400000],
                         value |-> [mapping |-> TRUE, flog |-> "line-A"]]>>
    /\ pre.writes = <<"written">>
    /\ NewLines = <<[date |-> 0, sep |-> " ", text |-> "line-A"]>>
    /\ pre.line_count = 1
    /\ line_count = 2
    /\ error_count = pre.error_count

(***************************************************************************)
(* Properties of the output.                                               *)
(***************************************************************************)
\* the states of fetch_logs between the open() and the finally block
InsideTry ==
    pc \in {"tell", "window", "request", "get_logs", "flush", "window_end",
            "wait", "is_set", "finally"}

\* fetch_logs has ended after its try: it returned, or close() raised (an
\* unsupported category raises before the try)
Ended == pc = "done" \/ (pc = "raised" /\ config.log_type \in EventType)

\* C11: a destination opened from a path stays open up to the finally block
\* and is closed there exactly once, whether the loop ended with the bounded
\* run, with the stop flag or with a fault (also when close() itself then
\* raises); it is never closed twice, never left open, and a path that could
\* not be opened is not closed.
C11_PathClosedOnce ==
    config.output.kind = "path" =>
        /\ out.closes <= 1
        /\ InsideTry /\ config.output.usable => out.state = "open" /\ out.closes = 0
        /\ Ended /\ config.output.usable => out.state = "closed" /\ out.closes = 1
        /\ ~config.output.usable => out.state = "none" /\ out.closes = 0

\* a run on a path has ended on a fault raised in the loop, after a page was
\* written, and the file is closed
C11_Witness ==
    /\ pc = "done"
    /\ config.output = [kind |-> "path", usable |-> TRUE]
    /\ fault
    /\ Len(out.written) >= 1
    /\ out.state = "closed"
    /\ out.closes = 1

\* C12: an output that the caller handed in as an open stream, sys.stdout or
\* any other, is never closed by fetch_logs.
C12_StreamNeverClosed ==
    config.output.kind \in {"stdout", "stream"} =>
        out.state # "closed" /\ out.closes = 0

(***************************************************************************)
(* fetch_logs on outputs that hold bytes before the run: a file at the     *)
(* path, a stream positioned after its content, a standard output          *)
(* redirected to a file, truncating (>) or appending (>>).                 *)
(***************************************************************************)
\* the bytes the output holds before the run
Helds == {0, 11}

InitSink ==
    /\ config \in {c \in Configs : /\ c.start = NoOverride
                                   /\ c.end = NoOverride
                                   /\ c.log_type = USER_ACCESS}
    /\ pc = "start"
    /\ handlers = FALSE
    /\ stop = FALSE
    /\ now = 100
    /\ \E held \in Helds, append \in BOOLEAN :
          /\ append => config.output.kind = "stdout"
          /\ out = Unopened(held, append)
    /\ tz = 0
    /\ start_position = 0
    /\ ets = 0
    /\ sts = 0
    /\ scroll_id = None
    /\ windows = 0
    /\ reqs = <<>>
    /\ resp = NoResp
    /\ pre = NoPre
    /\ line_count = 0
    /\ error_count = 0
    /\ fault = FALSE
    /\ summary = NoSummary

SpecSink == InitSink /\ [][Next]_vars

\* C13: the byte total of the summary of a bounded run is the number of
\* bytes appended to the output during the run, whatever the output held
\* before.
C13_SummaryCountsAppended ==
    summary.printed => summary.bytes = Bytes(out.written)

(***************************************************************************)
(* date_boundaries on its own: one call, for any configuration of tail,    *)
(* start and end, at any second of the clock.                              *)
(***************************************************************************)
InitWindow ==
    /\ config \in {c \in Configs : /\ c.log_type \in EventType
                                   /\ ~c.batch
                                   /\ c.output = [kind |-> "path", usable |-> TRUE]}
    /\ pc = "window"
    /\ handlers = TRUE
    /\ stop = FALSE
    /\ now \in 100..(100 + MaxClock)
    /\ out = Opened(Unopened(0, FALSE), "path")
    /\ tz = 0
    /\ start_position = 0
    /\ ets = 0
    /\ sts = 0
    /\ scroll_id = None
    /\ windows = 0
    /\ reqs = <<>>
    /\ resp = NoResp
    /\ pre = NoPre
    /\ line_count = 0
    /\ error_count = 0
    /\ fault = FALSE
    /\ summary = NoSummary

NextWindow == ComputeWindow

SpecWindow == InitWindow /\ [][NextWindow]_vars

\* date_boundaries has returned
WindowComputed == pc = "request"

\* a start override that is in effect lies before the end of the window
ValidBounds ==
    (~config.tail /\ Truthy(config.start)) => config.start * 1000 < ets

\* tail mode, or no end override
Rolling == config.tail \/ config.end = NoOverride

\* the milliseconds of the clock within the second `now`
ClockMs == {now * 1000 + f : f \in {0, 1, 500, 999}}

\* C14: for valid bounds the window returned by date_boundaries has its end
\* after its start; in rolling mode the end is the clock's whole seconds in
\* milliseconds less 60000, so at least the collection delay before the
\* clock.
C14_WindowOrdered ==
    WindowComputed =>
        /\ ValidBounds => ets > sts
        /\ Rolling =>
              /\ ets = now * 1000 - 60000
              /\ \A now_ms \in ClockMs :
                    ets <= now_ms - COLLECTION_DELAY_MINUTES * 60 * 1000

\* a window of tail mode, computed at second 101 with both overrides given
C14_Witness ==
    /\ WindowComputed
    /\ config.tail
    /\ config.start = 70
    /\ config.end = 30
    /\ now = 101
    /\ ets = 41000
    /\ sts = 26000

\* C15 as stated: the start of the window is the start override times 1000
\* whenever one is supplied, in every mode, and the end less 15000 otherwise.
C15_StartOverrideEveryMode ==
    WindowComputed =>
        sts = IF config.start # NoOverride THEN config.start * 1000 ELSE ets - 15000

\* C15, amended: in a bounded run the start of the window is the start
\* override times 1000 when one other than zero is supplied, with or without
\* an end override; in tail mode, without a start override or with the
\* override zero, it is the end of the window less 15000.
C15_StartOverrideBounded ==
    WindowComputed =>
        sts = IF ~config.tail /\ config.start \notin {NoOverride, 0}
              THEN config.start * 1000
              ELSE ets - 15000

\* a bounded window with a start override and no end override: the start is
\* the override, the end is the rolling one
C15_Witness ==
    /\ WindowComputed
    /\ ~config.tail
    /\ config.start = 30
    /\ config.end = NoOverride
    /\ sts = 30000
    /\ ets = now * 1000 - 60000

(***************************************************************************)
(* The two operations of EventLogAPI, each called on its own: fetch_logs   *)
(* from the start, or get_logs directly (no handler installed), for any    *)
(* category.                                                               *)
(***************************************************************************)
InitApi == Init \/ InitPage

\* a step of a run of fetch_logs
FetchLogs == (pc = "start" \/ handlers) /\ Next

\* a step of a direct call of get_logs
GetLogsAlone == ~handlers /\ NextPage

NextApi == FetchLogs \/ GetLogsAlone

SpecApi == InitApi /\ [][NextApi]_vars

\* no request was posted
NothingPosted ==
    /\ resp = NoResp
    /\ \A i \in 1..Len(reqs) : reqs[i].outcome = "pending" /\ reqs[i].returned = "pending"

\* C16: with an unsupported category both operations raise before any I/O.
\* fetch_logs (no drpc_args yet) raises with no handler installed, no output
\* opened and no request made; get_logs raises with its request not posted
\* and the output as it was; the exception leaves the operation: the fault
\* handler of the loop is not reached and nothing is counted.  Any other
\* exception that leaves fetch_logs comes from close() in the finally block.
C16_UnsupportedCategoryRaises ==
    /\ (pc = "raised" /\ out.closes = 0) => config.log_type \notin EventType
    /\ config.log_type \notin EventType =>
          /\ pc \in {"start", "get_logs", "raised"}
          /\ ~handlers
          /\ ~fault
          /\ NothingPosted
          /\ reqs = <<>> => out = Unopened(0, FALSE)
          /\ reqs # <<>> => /\ Len(out.written) = line_count
                            /\ out.flushed = line_count
                            /\ out.flushes = 0
          /\ out.closes = 0
          /\ error_count <= MaxPrior
          /\ ~summary.printed

\* fetch_logs has raised on the category "bogus": nothing is installed,
\* opened or requested
C16_Witness ==
    /\ pc = "raised"
    /\ config.log_type = "bogus"
    /\ reqs = <<>>
    /\ ~handlers
    /\ out.state = "none"
    /\ ~fault

\* the requests get_logs has returned from
Returns == Cardinality({i \in 1..Len(reqs) : reqs[i].outcome # "pending"})

\* C17: every return of get_logs is followed by a call of out.flush() before
\* the next request or the end of the window, also after a page that failed
\* or wrote nothing: but for the return just made, there are as many calls
\* of flush as returns of get_logs, and unless a flush raised all lines
\* written are flushed.
C17_FlushAfterEveryPage ==
    /\ pc = "flush" => out.flushes = Returns - 1
    /\ pc # "flush" => out.flushes = Returns
    /\ (pc # "flush" /\ ~fault) => out.flushed = Len(out.written)

\* a page with a line and a cursor, then a request that failed: two
\* flushes, the second after the failure, and the window has ended
C17_Witness ==
    /\ pc = "window_end"
    /\ Len(reqs) = 2
    /\ reqs[1].outcome = "message"
    /\ reqs[2].outcome = "post_raises"
    /\ Len(out.written) = 1
    /\ out.flushes = 2
    /\ out.flushed = 1

(***************************************************************************)
(* The tail loop as a running program: fetch_logs is sequential code, so   *)
(* each of its steps is taken once it can be; every request is answered    *)
(* and stop_event.wait returns at the latest on its timeout.  The signal,  *)
(* the clock and a failing flush are left to the environment.              *)
(***************************************************************************)
\* the window bounds play no part in stopping: the clock starts with one
\* second left to advance
InitTail ==
    /\ config \in {c \in RunConfigs : /\ c.tail
                                       /\ c.log_type = USER_ACCESS
                                       /\ c.output = [kind |-> "path", usable |-> TRUE]}
    /\ pc = "start"
    /\ handlers = FALSE
    /\ stop = FALSE
    /\ now = 100 + MaxClock - 1
    /\ out = Unopened(0, FALSE)
    /\ tz = 0
    /\ start_position = 0
    /\ ets = 0
    /\ sts = 0
    /\ scroll_id = None
    /\ windows = 0
    /\ reqs = <<>>
    /\ resp = NoResp
    /\ pre = NoPre
    /\ line_count = 0
    /\ error_count = 0
    /\ fault = FALSE
    /\ summary = NoSummary

LoopStep ==
    \/ Start
    \/ OpenOutput
    \/ Tell
    \/ ComputeWindow
    \/ Request
    \/ Respond
    \/ Flush
    \/ WindowEnd
    \/ Wait
    \/ IsSet
    \/ Finally

SpecTail == InitTail /\ [][Next]_vars /\ WF_vars(LoopStep)

\* fetch_logs has left its loop and closed the output: it has returned, or
\* close() raised after a failed flush
Stopped == pc \in {"done", "raised"}

\* the requests the model records are spent with the window not yet ended
RequestsSpent == pc = "request" /\ Len(reqs) = MaxRequests

\* a window has been computed and the loop has not gone back for another
WindowStarted == pc \notin {"start", "open", "tell", "window"}

\* C18: in tail mode the stop flag, once set, stays set; the loop then goes
\* on to its stopped state as long as the pagination of the window ends
\* (within the requests the model records), and with the flag set while a
\* window is being paginated no other window is computed.
C18_StopEndsTailLoop ==
    /\ [][stop => stop']_vars
    /\ [][(stop /\ WindowStarted) => (windows' = windows /\ pc' # "window")]_vars
    /\ [](stop => <>(Stopped \/ RequestsSpent))

\* the flag was set between the first and the second request of the first
\* window; the window was finished and the loop has stopped without another
C18_Witness ==
    /\ Stopped
    /\ config.tail
    /\ stop
    /\ ~fault
    /\ windows = 1
    /\ Len(reqs) = 2
    /\ ~reqs[1].stopped
    /\ reqs[2].stopped
    /\ reqs[2].returned = None

\* the response reached the extraction of the cursor (lines 93, 96-97): a
\* message of the category's shape, with its metadata for an admin message
CursorExtracted ==
    /\ resp.kind = "message"
    /\ resp.shape = config.log_type
    /\ config.log_type = ADMIN => resp.metadata

\* an exception after the extraction of the cursor: an admin message without
\* its data sequence, or with an item that is not a mapping
FaultAfterCursor ==
    /\ CursorExtracted
    /\ config.log_type = ADMIN
    /\ ~resp.data \/ \E i \in 1..Len(resp.records) : ~resp.records[i].mapping

\* C19: for a supported category get_logs always returns to its caller,
\* whatever the response: no step of it raises into the loop.  It returns
\* the cursor of the page when the extraction of the cursor was reached,
\* also when an exception followed it, and None otherwise; after a page
\* whose parsing failed behind a cursor the loop stays in the window and the
\* next request carries that cursor.
C19_GetLogsNeverRaises ==
    /\ [][(pc = "get_logs" /\ config.log_type \in EventType)
              => (pc' \in {"get_logs", "flush"} /\ fault' = fault)]_vars
    /\ [](Returned =>
              scroll_id = IF CursorExtracted THEN resp.scroll_id ELSE None)
    /\ []((FaultAfterCursor /\ resp.scroll_id # None /\ pc = "request")
              => (scroll_id = resp.scroll_id /\ Last.window = windows))
    /\ []((FaultAfterCursor /\ resp.scroll_id # None /\ pc = "get_logs")
              => /\ Len(reqs) >= 2
                 /\ Last.scroll_id = resp.scroll_id
                 /\ Last.window = reqs[Len(reqs) - 1].window)

\* in a run of fetch_logs an admin page had metadata with the cursor c1 and
\* no data: get_logs returned c1 and the second request carries it
C19_Witness ==
    /\ pc = "get_logs"
    /\ handlers
    /\ ~fault
    /\ Len(reqs) = 2
    /\ resp = AdminPage("c1", TRUE, FALSE, <<>>)
    /\ reqs[1].returned = "c1"
    /\ Last.scroll_id = "c1"
    /\ Last.window = reqs[1].window

\* C20: whenever get_logs returns, line_count is the number of lines written
\* to the output since the object was created, and no step makes line_count
\* or error_count smaller.
C20_CountersMatchAndGrow ==
    /\ [](Returned => line_count = Len(out.written))
    /\ [][line_count' >= line_count /\ error_count' >= error_count]_vars

====
